---- MODULE Spec2Model ----
(***************************************************************************)
(* BoundaryConstraintComp (dymos/phases/components/boundary_constraint_    *)
(* comp.py): boundary constraints are declared with _add_constraint, turned *)
(* into input/output pairs, constraint registrations and sparse identity   *)
(* partials by setup, and copied input -> output by compute.               *)
(*                                                                         *)
(* Conventions.  Python's None is the empty tuple and a present value v is *)
(* the one-element tuple <<v>>, so that "x is None" is x = None for every  *)
(* kind of value.  Floats are integers (only equality and sign are used).  *)
(* An array is a record [shape, data] with data in row-major order.        *)
(* The calls the component makes on its ExplicitComponent base class       *)
(* (add_input, add_output, add_constraint, declare_partials) are recorded  *)
(* in the order they are made.  The base class is not part of the          *)
(* component: it refuses a name it already holds, which fails the build at *)
(* that call; which of add_input, add_output and add_constraint do the     *)
(* refusing is left open (rejects).                                        *)
(***************************************************************************)
EXTENDS Integers, Sequences, FiniteSets

VARIABLES
    loc,                \* self.options['loc']
    rejects,            \* the base-class calls that refuse a name already in use
    _constraints,       \* self._constraints: list of (name, kwargs)
    _vars,              \* self._vars: dict name -> {input_name, output_name, shape}
    inputs_added,       \* add_input calls accepted so far, in call order
    outputs_added,      \* add_output calls accepted so far, in call order
    constraints_added,  \* add_constraint calls accepted so far, in call order
    partials,           \* declare_partials: (of, wrt) -> {rows, cols, val}
    given,              \* the inputs vector as handed to compute, while last_op = "compute"
    inputs,             \* the inputs vector when that compute call returned
    outputs,            \* the outputs vector when that compute call returned
    setup_calls,        \* number of times setup was invoked
    setup_returns,      \* number of times setup ran to its end
    setup_state,        \* "none" | "ok" (last setup returned) | "raised"
    setup_len,          \* len(self._constraints) when setup was last invoked
    declared,           \* the (name, arguments) of every _add_constraint call
    last_op             \* the operation that produced this state

svars == <<loc, rejects, _constraints, _vars, inputs_added, outputs_added, constraints_added,
           partials, given, inputs, outputs, setup_calls, setup_returns, setup_state,
           setup_len, declared, last_op>>

----------------------------------------------------------------------------
(* Bounds of the model *)

\* at most this many _add_constraint calls on one component
MaxDecl == 2

\* at most this many setup calls on one component
MaxSetup == 2

----------------------------------------------------------------------------
(* Values *)

None == <<>>

Some(v) == <<v>>

\* dymos.utils.constants.INF_BOUND: a large finite sentinel, larger in
\* magnitude than every bound a caller passes in this model
INF_BOUND == 1000000

Locs == {"initial", "final"}

Names == {"h", "gam"}

\* The defaults of _add_constraint's signature (line 62-65)
Defaults ==
    [shape |-> <<1>>, units |-> None, res_units |-> None, desc |-> "",
     lower |-> None, upper |-> None, equals |-> None,
     scaler |-> None, adder |-> None, ref |-> Some(1), ref0 |-> Some(0),
     linear |-> FALSE, res_ref |-> Some(1), distributed |-> FALSE]

\* The keyword arguments of the _add_constraint calls explored: no bound
\* (equals alone), lower alone, upper alone (a bound of 0, with equals), and
\* both bounds together with equals, over the shapes (1,), (), (3,), (2,2).
\* Every field takes a non-default value somewhere.
CallArgs ==
    { [Defaults EXCEPT !.units = Some("m"), !.equals = Some(20000), !.scaler = Some(2)],
      [Defaults EXCEPT !.shape = <<>>, !.units = Some("rad"), !.lower = Some(-15),
                       !.desc = "flight path angle"],
      [Defaults EXCEPT !.shape = <<3>>, !.upper = Some(0), !.equals = Some(6),
                       !.adder = Some(5), !.linear = TRUE],
      [Defaults EXCEPT !.shape = <<2, 2>>, !.lower = Some(0), !.upper = Some(7),
                       !.equals = Some(6), !.ref = Some(8), !.ref0 = Some(9),
                       !.res_units = Some("m"), !.res_ref = Some(3),
                       !.distributed = TRUE] }

----------------------------------------------------------------------------
(* _add_constraint *)

\* line 115 written with truthiness tests ("if upper and not lower")
NormLowerTruthy(lower, upper) ==
    IF upper \notin {None, Some(0)} /\ lower \in {None, Some(0)}
    THEN Some(-INF_BOUND) ELSE lower

\* line 115: lower = -INF_BOUND if upper is not None and lower is None else lower
NormLower(lower, upper) ==
    IF upper # None /\ lower = None THEN Some(-INF_BOUND) ELSE lower

\* line 116 without its test of lower
NormUpperAlways(lower, upper) ==
    IF upper = None THEN Some(INF_BOUND) ELSE upper

\* line 116, evaluated with the lower of line 115:
\* upper = INF_BOUND if lower is not None and upper is None else upper
NormUpper(lower, upper) ==
    IF lower # None /\ upper = None THEN Some(INF_BOUND) ELSE upper

\* lines 117-120: the kwargs dict stored with the name
MakeKwargs(a) ==
    LET lo == NormLower(a.lower, a.upper)
        up == NormUpper(lo, a.upper)
    IN  [shape |-> a.shape, units |-> a.units, res_units |-> a.res_units,
         desc |-> a.desc, lower |-> lo, upper |-> up, equals |-> a.equals,
         scaler |-> a.scaler, adder |-> a.adder, ref |-> a.ref, ref0 |-> a.ref0,
         linear |-> a.linear, res_ref |-> a.res_ref, distributed |-> a.distributed]

\* line 121 as self._constraints.insert(0, (name, kwargs))
AppendConstraintFront(cs, name, a) ==
    <<[name |-> name, kwargs |-> MakeKwargs(a)]>> \o cs

\* line 121: self._constraints.append((name, kwargs))
AppendConstraint(cs, name, a) ==
    Append(cs, [name |-> name, kwargs |-> MakeKwargs(a)])

AddConstraint(name, a) ==
    /\ Len(_constraints) < MaxDecl
    /\ _constraints' = AppendConstraint(_constraints, name, a)
    /\ declared' = Append(declared, [name |-> name, args |-> a])
    /\ last_op' = "_add_constraint"
    /\ UNCHANGED <<loc, rejects, _vars, inputs_added, outputs_added, constraints_added,
                   partials, given, inputs, outputs, setup_calls, setup_returns,
                   setup_state, setup_len>>

----------------------------------------------------------------------------
(* setup *)

\* line 25 with the format string of line 26
input_nameAsOutput(l, name) == l \o "_value:" \o name

\* line 25: '{0}_value_in:{1}'.format(self.options['loc'], name)
input_name(l, name) == l \o "_value_in:" \o name

\* line 26: '{0}_value:{1}'.format(self.options['loc'], name)
output_name(l, name) == l \o "_value:" \o name

\* line 27 as self._vars = {name: ...}
DictSetOnly(d, k, v) == [x \in {k} |-> v]

\* d[k] = v on a dict
DictSet(d, k, v) == [x \in DOMAIN d \cup {k} |-> IF x = k THEN v ELSE d[x]]

\* kwargs.get(k, None)
Get(kwargs, k) == IF k \in DOMAIN kwargs THEN kwargs[k] ELSE None

\* lines 27-29: the entry written to self._vars[name]
VarEntry(l, name, kwargs) ==
    [input_name |-> input_name(l, name),
     output_name |-> output_name(l, name),
     shape |-> kwargs.shape]

\* lines 33-34 and 36-37: {k: kwargs[k] for k in ('units', 'shape', 'desc')},
\* passed with the variable's name to add_input / add_output
VarCall(varname, kwargs) ==
    [name |-> varname, units |-> kwargs.units, shape |-> kwargs.shape,
     desc |-> kwargs.desc]

ConstraintKeys ==
    {"lower", "upper", "equals", "ref", "ref0", "adder", "scaler", "indices", "linear"}

\* lines 39-42 with equals withheld from a spec that has a bound
ConstraintCallDropEquals(varname, kwargs) ==
    [name |-> varname,
     kwargs |-> [k \in ConstraintKeys |->
                    IF k = "equals" /\ (kwargs.lower # None \/ kwargs.upper # None)
                    THEN None ELSE Get(kwargs, k)]]

\* lines 39-42: {k: kwargs.get(k, None) for k in (...)}, passed with the
\* output's name to add_constraint
ConstraintCall(varname, kwargs) ==
    [name |-> varname, kwargs |-> [k \in ConstraintKeys |-> Get(kwargs, k)]]

NamesOf(log) == {log[j].name : j \in DOMAIN log}

SetupCalls == {"add_input", "add_output", "add_constraint"}

\* The base class fails a build in which two constraints resolve to the
\* same name: at least one of the three calls refuses a name it already
\* holds, and which of them do is fixed for the component.
Policies == SUBSET SetupCalls \ {{}}

\* Whether the base class raises from call p (add_input, add_output or
\* add_constraint) for varname
Raises(policy, p, log, varname) == p \in policy /\ varname \in NamesOf(log)

\* One pass of the loop of lines 24-42 for the entry c = self._constraints[i].
\* st holds self._vars and the calls made so far; the pass ends early, with
\* st.raised set, when one of its calls raises.
SetupStep(st, l, c, policy) ==
    LET s1 == [st EXCEPT !.vars = DictSet(st.vars, c.name, VarEntry(l, c.name, c.kwargs))]
        iname == s1.vars[c.name].input_name
        oname == s1.vars[c.name].output_name
        s2 == [s1 EXCEPT !.ins = Append(s1.ins, VarCall(iname, c.kwargs))]
        s3 == [s2 EXCEPT !.outs = Append(s2.outs, VarCall(oname, c.kwargs))]
        s4 == [s3 EXCEPT !.cons = Append(s3.cons, ConstraintCall(oname, c.kwargs))]
    IN  IF Raises(policy, "add_input", s1.ins, iname) THEN [s1 EXCEPT !.raised = TRUE]
        ELSE IF Raises(policy, "add_output", s2.outs, oname) THEN [s2 EXCEPT !.raised = TRUE]
        ELSE IF Raises(policy, "add_constraint", s3.cons, oname) THEN [s3 EXCEPT !.raised = TRUE]
        ELSE s4

\* lines 24-42: for (name, kwargs) in self._constraints
RECURSIVE SetupLoop(_, _, _, _, _)
SetupLoop(st, l, cs, i, policy) ==
    IF i > Len(cs) \/ st.raised THEN st
    ELSE SetupLoop(SetupStep(st, l, cs[i], policy), l, cs, i + 1, policy)

\* int(np.prod(shape))
RECURSIVE Prod(_)
Prod(shape) == IF shape = <<>> THEN 1 ELSE Head(shape) * Prod(Tail(shape))

\* np.arange(1, size + 1)
arangeFromOne(size) == [i \in 1..size |-> i]

\* np.arange(size)
arange(size) == [i \in 1..size |-> i - 1]

\* np.ones(size)
ones(size) == [i \in 1..size |-> 1]

\* lines 46-55: the declaration made for one entry of self._vars
PartialDecl(options) ==
    LET size == Prod(options.shape)
    IN  [of |-> options.output_name, wrt |-> options.input_name,
         val |-> ones(size), rows |-> arange(size), cols |-> arange(size)]

\* lines 45-55: for name, options in iteritems(self._vars); a declaration
\* replaces an earlier one for the same (of, wrt)
SetupPartials(vs, ps) ==
    LET decl == {PartialDecl(vs[n]) : n \in DOMAIN vs}
        keys == {<<d.of, d.wrt>> : d \in decl}
    IN  [k \in DOMAIN ps \cup keys |->
            IF k \in keys
            THEN LET d == CHOOSE d \in decl : <<d.of, d.wrt>> = k
                 IN  [rows |-> d.rows, cols |-> d.cols, val |-> d.val]
            ELSE ps[k]]

Setup ==
    /\ setup_calls < MaxSetup
    /\ LET st == SetupLoop([vars |-> _vars, ins |-> inputs_added, outs |-> outputs_added,
                            cons |-> constraints_added, raised |-> FALSE],
                           loc, _constraints, 1, rejects)
       IN  /\ _vars' = st.vars
           /\ inputs_added' = st.ins
           /\ outputs_added' = st.outs
           /\ constraints_added' = st.cons
           /\ partials' = IF st.raised THEN partials ELSE SetupPartials(st.vars, partials)
           /\ setup_state' = IF st.raised THEN "raised" ELSE "ok"
           /\ setup_returns' = IF st.raised THEN setup_returns ELSE setup_returns + 1
    /\ setup_calls' = setup_calls + 1
    /\ setup_len' = Len(_constraints)
    /\ last_op' = "setup"
    /\ given' = <<>> /\ inputs' = <<>> /\ outputs' = <<>>
    /\ UNCHANGED <<loc, rejects, _constraints, declared>>

----------------------------------------------------------------------------
(* compute *)

\* the shape the vectors hold for a variable: that of its latest declaration
ShapeIn(log, varname) ==
    LET last == CHOOSE j \in DOMAIN log :
                    /\ log[j].name = varname
                    /\ \A k \in DOMAIN log : log[k].name = varname => k <= j
    IN  log[last].shape

FirstIn(log, varname) ==
    CHOOSE j \in DOMAIN log :
        /\ log[j].name = varname
        /\ \A k \in DOMAIN log : log[k].name = varname => j <= k

\* The vectors a solver hands to compute hold one array per declared
\* variable.  Vector(log, seed) gives every element of every array a
\* different value: seed, seed + 1, ... in the variable first declared,
\* seed + 100, seed + 101, ... in the next one, and so on.
Vector(log, seed) ==
    [n \in NamesOf(log) |->
        [shape |-> ShapeIn(log, n),
         data |-> [i \in 1..Prod(ShapeIn(log, n)) |->
                      seed + 100 * (FirstIn(log, n) - 1) + i - 1]]]

InputSeeds == {0, 19500}

OutputSeeds == {1, 7}

\* lines 59-60 leaving the loop after its first pass
ComputeOutputsFirst(vs, ins, outs) ==
    IF DOMAIN vs = {} THEN outs
    ELSE LET n == CHOOSE n \in DOMAIN vs : TRUE
         IN  [o \in DOMAIN outs \cup {vs[n].output_name} |->
                 IF o = vs[n].output_name THEN ins[vs[n].input_name] ELSE outs[o]]

\* lines 59-60: outputs[options['output_name']] = inputs[options['input_name']]
\* for every entry of self._vars
ComputeOutputs(vs, ins, outs) ==
    LET written == {vs[n].output_name : n \in DOMAIN vs}
    IN  [o \in DOMAIN outs \cup written |->
            IF o \in written
            THEN ins[vs[CHOOSE n \in DOMAIN vs : vs[n].output_name = o].input_name]
            ELSE outs[o]]

\* lines 57-60 never assign to inputs
ComputeInputs(vs, ins, outs) == ins

\* compute(inputs, outputs), called by the solver once setup has returned
Compute(ins, outs) ==
    /\ setup_state = "ok"
    /\ given' = ins
    /\ outputs' = ComputeOutputs(_vars, ins, outs)
    /\ inputs' = ComputeInputs(_vars, ins, outs)
    /\ last_op' = "compute"
    /\ UNCHANGED <<loc, rejects, _constraints, _vars, inputs_added, outputs_added,
                   constraints_added, partials, setup_calls, setup_returns,
                   setup_state, setup_len, declared>>

----------------------------------------------------------------------------

Init ==
    /\ loc \in Locs
    /\ rejects \in Policies
    /\ _constraints = <<>>
    /\ _vars = <<>>
    /\ inputs_added = <<>>
    /\ outputs_added = <<>>
    /\ constraints_added = <<>>
    /\ partials = <<>>
    /\ given = <<>>
    /\ inputs = <<>>
    /\ outputs = <<>>
    /\ setup_calls = 0
    /\ setup_returns = 0
    /\ setup_state = "none"
    /\ setup_len = 0
    /\ declared = <<>>
    /\ last_op = "initialize"

Next ==
    \/ \E name \in Names, a \in CallArgs : AddConstraint(name, a)
    \/ Setup
    \/ \E si \in InputSeeds, so \in OutputSeeds :
          Compute(Vector(inputs_added, si), Vector(outputs_added, so))

Spec == Init /\ [][Next]_svars

----------------------------------------------------------------------------
(* Properties *)

\* the i-th _add_constraint call gave only `upper` / only `lower`
OnlyUpper(i) == declared[i].args.lower = None /\ declared[i].args.upper # None

OnlyLower(i) == declared[i].args.lower # None /\ declared[i].args.upper = None

\* C1: a declaration with exactly one of lower/upper stores the given bound
\* unchanged and the sentinel of the matching sign on the other side:
\* -INF_BOUND as lower when only upper is given, +INF_BOUND as upper when
\* only lower is given.
C1_OneSidedBoundGetsSentinel ==
    \A i \in DOMAIN _constraints :
        /\ OnlyUpper(i) =>
              /\ _constraints[i].kwargs.lower = <<-INF_BOUND>>
              /\ _constraints[i].kwargs.upper = declared[i].args.upper
        /\ OnlyLower(i) =>
              /\ _constraints[i].kwargs.upper = <<INF_BOUND>>
              /\ _constraints[i].kwargs.lower = declared[i].args.lower

\* both one-sided declarations were made, the upper-only one with a bound of 0
C1_Witness ==
    /\ \E i \in DOMAIN _constraints :
          OnlyUpper(i) /\ declared[i].args.upper = <<0>>
                       /\ _constraints[i].kwargs.lower = <<-INF_BOUND>>
    /\ \E i \in DOMAIN _constraints :
          OnlyLower(i) /\ _constraints[i].kwargs.upper = <<INF_BOUND>>

\* C2: a declaration with neither or both of lower/upper stores exactly the
\* pair passed in (unset stays unset, given values stay as given), and
\* normalizing a stored pair again changes nothing.
C2_BothOrNeitherUnchanged ==
    \A i \in DOMAIN _constraints :
        LET a == declared[i].args
            k == _constraints[i].kwargs
        IN  /\ (a.lower = None) = (a.upper = None) =>
                  k.lower = a.lower /\ k.upper = a.upper
            /\ k.lower # None /\ k.upper # None =>
                  /\ NormLower(k.lower, k.upper) = k.lower
                  /\ NormUpper(NormLower(k.lower, k.upper), k.upper) = k.upper

\* a declaration without bounds and one with both bounds were made
C2_Witness ==
    /\ \E i \in DOMAIN _constraints :
          /\ declared[i].args.lower = None /\ declared[i].args.upper = None
          /\ _constraints[i].kwargs.lower = None /\ _constraints[i].kwargs.upper = None
    /\ \E i \in DOMAIN _constraints :
          /\ declared[i].args.lower = <<0>> /\ declared[i].args.upper = <<7>>
          /\ _constraints[i].kwargs.lower = <<0>> /\ _constraints[i].kwargs.upper = <<7>>

\* a step in which setup ran to its end
SetupReturned == setup_returns' = setup_returns + 1

\* the product of a shape's dimensions, for the shapes of rank <= 2 used here
SizeOf(shape) ==
    IF Len(shape) = 0 THEN 1
    ELSE IF Len(shape) = 1 THEN shape[1]
    ELSE shape[1] * shape[2]

\* the positions of the calls in log that created the variable varname
Created(log, varname) == {j \in DOMAIN log : log[j].name = varname}

\* C3: a build creates, for every constraint declared before it, exactly one
\* input "{loc}_value_in:{name}" and exactly one output "{loc}_value:{name}"
\* with the shape of that constraint's spec, and leaves _vars[name] holding
\* that input name, output name and shape; after the build no other input or
\* output of those names exists.
C3_BuildCreatesPairPerSpec ==
    /\ [](setup_state = "ok" =>
            \A i \in 1..setup_len :
                LET name == _constraints[i].name
                    shape == _constraints[i].kwargs.shape
                    ins == Created(inputs_added, loc \o "_value_in:" \o name)
                    outs == Created(outputs_added, loc \o "_value:" \o name)
                IN  /\ Cardinality(ins) = 1
                    /\ Cardinality(outs) = 1
                    /\ \A j \in ins : inputs_added[j].shape = shape
                    /\ \A j \in outs : outputs_added[j].shape = shape
                    /\ name \in DOMAIN _vars
                    /\ _vars[name] = [input_name |-> loc \o "_value_in:" \o name,
                                      output_name |-> loc \o "_value:" \o name,
                                      shape |-> shape])
    /\ [][SetupReturned =>
            /\ Len(inputs_added') = Len(inputs_added) + Len(_constraints)
            /\ Len(outputs_added') = Len(outputs_added) + Len(_constraints)
            /\ \A i \in DOMAIN _constraints :
                  LET name == _constraints[i].name
                      shape == _constraints[i].kwargs.shape
                      inp == inputs_added'[Len(inputs_added) + i]
                      out == outputs_added'[Len(outputs_added) + i]
                  IN  /\ inp.name = loc \o "_value_in:" \o name
                      /\ inp.shape = shape
                      /\ out.name = loc \o "_value:" \o name
                      /\ out.shape = shape
         ]_svars

\* the spec's scenario: a build at the final location of h with shape (1,)
\* and of a second constraint with shape (2,2)
C3_Witness ==
    /\ setup_state = "ok"
    /\ last_op = "setup"
    /\ loc = "final"
    /\ setup_len = 2
    /\ _constraints[1].name = "h"
    /\ _constraints[1].kwargs.equals = <<20000>>
    /\ _vars["h"] = [input_name |-> "final_value_in:h",
                     output_name |-> "final_value:h", shape |-> <<1>>]
    /\ _vars["gam"].shape = <<2, 2>>
    /\ Len(inputs_added) = 2
    /\ inputs_added[1].name = "final_value_in:h"
    /\ outputs_added[2].name = "final_value:gam"

\* C4: when compute returns, the output of every entry of _vars holds the
\* array (shape and elements) that its input held when compute was called,
\* and the inputs vector is as it was handed in.
C4_ComputeCopiesEveryInput ==
    last_op = "compute" =>
        /\ inputs = given
        /\ \A n \in DOMAIN _vars :
              /\ _vars[n].output_name \in DOMAIN outputs
              /\ _vars[n].input_name \in DOMAIN given
              /\ outputs[_vars[n].output_name] = given[_vars[n].input_name]

\* compute returned with two pass-through variables, the final one of h
\* holding [19500.0]
C4_Witness ==
    /\ last_op = "compute"
    /\ DOMAIN _vars = {"h", "gam"}
    /\ loc = "final"
    /\ given["final_value_in:h"] = [shape |-> <<1>>, data |-> <<19500>>]
    /\ outputs["final_value:h"] = [shape |-> <<1>>, data |-> <<19500>>]
    /\ outputs["final_value:gam"] = given["final_value_in:gam"]
    /\ outputs["final_value:gam"].shape = <<2, 2>>

\* C5: after a build, the partials declared for every entry of _vars, of its
\* output with respect to its own input, have exactly size = prod(shape)
\* entries, the i-th at row i and column i (counted from 0) with value 1;
\* partials are declared only between the output and the input of one name.
C5_PartialsAreIdentityBlocks ==
    /\ \A k \in DOMAIN partials :
          \E n \in Names :
              k = <<loc \o "_value:" \o n, loc \o "_value_in:" \o n>>
    /\ setup_state = "ok" =>
          \A n \in DOMAIN _vars :
              LET k == <<_vars[n].output_name, _vars[n].input_name>>
                  size == SizeOf(_vars[n].shape)
              IN  /\ k \in DOMAIN partials
                  /\ Len(partials[k].rows) = size
                  /\ Len(partials[k].cols) = size
                  /\ Len(partials[k].val) = size
                  /\ \A i \in 1..size :
                        /\ partials[k].rows[i] = i - 1
                        /\ partials[k].cols[i] = i - 1
                        /\ partials[k].val[i] = 1

\* a build declared the four-entry block of a (2,2) variable and the
\* one-entry block of a () variable
C5_Witness ==
    /\ setup_state = "ok"
    /\ \E n \in DOMAIN _vars :
          /\ _vars[n].shape = <<2, 2>>
          /\ partials[<<_vars[n].output_name, _vars[n].input_name>>].rows = <<0, 1, 2, 3>>
    /\ \E n \in DOMAIN _vars :
          /\ _vars[n].shape = <<>>
          /\ partials[<<_vars[n].output_name, _vars[n].input_name>>].val = <<1>>

\* C6: the registry never holds two specs with the same name (a second
\* declaration of a registered name is refused when it is made).
C6_NoDuplicateNames ==
    \A i, j \in DOMAIN _constraints :
        i # j => _constraints[i].name # _constraints[j].name

\* C7: a build makes exactly one add_constraint call per declared spec, in
\* registry order, on that spec's output name, with the lower, upper, equals,
\* scaler, adder, ref, ref0 and linear stored at declaration and indices
\* unset; equals is passed on together with the bounds it was declared with.
C7_BuildRegistersStoredConstraint ==
    [][SetupReturned =>
         /\ Len(constraints_added') = Len(constraints_added) + Len(_constraints)
         /\ SubSeq(constraints_added', 1, Len(constraints_added)) = constraints_added
         /\ \A i \in DOMAIN _constraints :
               LET c == constraints_added'[Len(constraints_added) + i]
                   k == _constraints[i].kwargs
                   a == declared[i].args
               IN  /\ c.name = loc \o "_value:" \o _constraints[i].name
                   /\ DOMAIN c.kwargs = {"lower", "upper", "equals", "scaler", "adder",
                                         "ref", "ref0", "indices", "linear"}
                   /\ c.kwargs.lower = k.lower
                   /\ c.kwargs.upper = k.upper
                   /\ c.kwargs.equals = k.equals
                   /\ c.kwargs.scaler = k.scaler
                   /\ c.kwargs.adder = k.adder
                   /\ c.kwargs.ref = k.ref
                   /\ c.kwargs.ref0 = k.ref0
                   /\ c.kwargs.linear = k.linear
                   /\ c.kwargs.indices = <<>>
                   /\ c.kwargs.equals = a.equals
                   /\ a.lower # <<>> => c.kwargs.lower = a.lower
                   /\ a.upper # <<>> => c.kwargs.upper = a.upper
      ]_svars

\* a build registered a constraint declared with equals and both bounds, and
\* one declared with equals and upper alone
C7_Witness ==
    /\ setup_state = "ok"
    /\ \E j \in DOMAIN constraints_added :
          /\ constraints_added[j].kwargs.equals = <<6>>
          /\ constraints_added[j].kwargs.lower = <<0>>
          /\ constraints_added[j].kwargs.upper = <<7>>
          /\ constraints_added[j].kwargs.ref = <<8>>
    /\ \E j \in DOMAIN constraints_added :
          /\ constraints_added[j].kwargs.equals = <<6>>
          /\ constraints_added[j].kwargs.lower = <<-INF_BOUND>>
          /\ constraints_added[j].kwargs.upper = <<0>>
          /\ constraints_added[j].kwargs.linear

\* C8: the build never completes twice on one component, and no spec has its
\* input, output or constraint created more than once.
C8_BuildRunsAtMostOnce ==
    /\ setup_returns <= 1
    /\ Len(inputs_added) <= Len(_constraints)
    /\ Len(outputs_added) <= Len(_constraints)
    /\ Len(constraints_added) <= Len(_constraints)

\* C9: a declaration appends one spec to the registry and nothing else: the
\* specs already there keep their content and order, _vars is unchanged, and
\* no input, output, constraint or partial is created; those change only in
\* a step of setup.
C9_DeclarationOnlyAppends ==
    [][/\ last_op' = "_add_constraint" =>
             /\ Len(_constraints') = Len(_constraints) + 1
             /\ SubSeq(_constraints', 1, Len(_constraints)) = _constraints
             /\ _vars' = _vars
             /\ inputs_added' = inputs_added
             /\ outputs_added' = outputs_added
             /\ constraints_added' = constraints_added
             /\ partials' = partials
       /\ \/ inputs_added' # inputs_added
          \/ outputs_added' # outputs_added
          \/ constraints_added' # constraints_added
          \/ partials' # partials
          \/ _vars' # _vars
          => last_op' = "setup"
      ]_svars

\* a second spec was declared, after a build that had created the structure
\* of the first
C9_Witness ==
    /\ last_op = "_add_constraint"
    /\ Len(_constraints) = 2
    /\ setup_state = "ok"
    /\ Len(inputs_added) = 1
    /\ Cardinality(DOMAIN _vars) = 1
    /\ _constraints[2].name \notin DOMAIN _vars

\* the names declared before the latest setup call
BuiltNames == {_constraints[i].name : i \in 1..setup_len}

\* C10: once a build has completed, _vars holds an entry for exactly the
\* names declared before it; no evaluation and no declaration changes _vars;
\* an evaluation writes the outputs of the entries of _vars and no other, so
\* a constraint declared after the build is not copied.
C10_VarsFixedAfterBuild ==
    /\ [](setup_state = "ok" => DOMAIN _vars = BuiltNames)
    /\ [](last_op = "compute" =>
             DOMAIN outputs = {loc \o "_value:" \o n : n \in BuiltNames})
    /\ [][last_op' \in {"compute", "_add_constraint"} => _vars' = _vars]_svars

\* an evaluation ran after a build of h and a later declaration of gam
C10_Witness ==
    /\ last_op = "compute"
    /\ Len(_constraints) = 2
    /\ _constraints[2].name = "gam"
    /\ DOMAIN _vars = {"h"}
    /\ DOMAIN outputs = {loc \o "_value:h"}

====
